---- MODULE Spec2Model ----
(***************************************************************************)
(* State-machine model of nets/core/loss_transducer.py: the Transducer     *)
(* wrapper (construction, forward, compute_loss), its TransducerOptimized  *)
(* subclass and the Joiner network.                                        *)
(*                                                                         *)
(* A tensor is a record [shape, dtype, data, id]: shape is the tuple of    *)
(* dimension sizes, data the row-major contents where the code depends on  *)
(* them (labels and lengths) and <<>> where it does not, id the abstract   *)
(* identity of contents the model does not look into.  Elements of a       *)
(* float32 tensor are counted in halves (3 stands for 1.5); elements of an *)
(* integer tensor are plain integers.  Probabilities are in percent.       *)
(***************************************************************************)
EXTENDS Integers, Sequences, FiniteSets, TLC

(* ---------------------------- bounds ----------------------------------- *)
MaxB == 2
MaxT == 2
MaxU == 2

(* ------------------------ tensors and helpers -------------------------- *)
Tensor(shape, dtype, data, id) ==
    [shape |-> shape, dtype |-> dtype, data |-> data, id |-> id]

NoTensor == Tensor(<<>>, "none", <<>>, "none")

ndim(t) == Len(t.shape)

size(t, d) == t.shape[d + 1]

Const(n, v) == [i \in 1..n |-> v]

(* Tensor.to(dtype) *)
Trunc(h) == IF h >= 0 THEN h \div 2 ELSE -((-h) \div 2)

IsIntDtype(d) == d \in {"int32", "int64"}

to(t, dtype) ==
    IF t.dtype = dtype THEN t
    ELSE IF IsIntDtype(dtype) /\ ~IsIntDtype(t.dtype)
         THEN Tensor(t.shape, dtype, [i \in DOMAIN t.data |-> Trunc(t.data[i])], t.id)
    ELSE IF ~IsIntDtype(dtype) /\ IsIntDtype(t.dtype)
         THEN Tensor(t.shape, dtype, [i \in DOMAIN t.data |-> 2 * t.data[i]], t.id)
    ELSE Tensor(t.shape, dtype, t.data, t.id)

(* torch.nn.functional.pad(y, pad=(1, 0, 0, 0), value=0.0) on a 2-d y *)
pad_1_0_0_0(t) ==
    LET b == t.shape[1]
        l == t.shape[2]
    IN  Tensor(<<b, l + 1>>, t.dtype,
               [k \in 1..(b * (l + 1)) |->
                   LET row == (k - 1) \div (l + 1)
                       col == (k - 1) % (l + 1)
                   IN  IF col = 0 THEN 0 ELSE t.data[row * l + col]],
               t.id)

(* torch.all(x_lens > 0) *)
all_gt_0(t) == \A i \in DOMAIN t.data : t.data[i] > 0

(* Tensor.unsqueeze(d) *)
unsqueeze(t, d) ==
    Tensor(SubSeq(t.shape, 1, d) \o <<1>> \o SubSeq(t.shape, d + 1, Len(t.shape)),
           t.dtype, t.data, t.id)

(* broadcasting of two shapes of equal rank, as torch does for a + b *)
broadcast_shapes(s1, s2) ==
    [i \in 1..Len(s1) |-> IF s1[i] = 1 THEN s2[i] ELSE s1[i]]

add(a, b) ==
    Tensor(broadcast_shapes(a.shape, b.shape), a.dtype, <<>>,
           "(" \o a.id \o "+" \o b.id \o ")")

tanh(t) == Tensor(t.shape, t.dtype, <<>>, "tanh" \o t.id)

(* torch.nn.Linear(input_dim, output_dim) applied to t: maps the last     *)
(* dimension from input_dim to output_dim                                  *)
Linear_accepts(lin, t) == t.shape[Len(t.shape)] = lin.input_dim

Linear_forward(lin, t) ==
    Tensor(SubSeq(t.shape, 1, Len(t.shape) - 1) \o <<lin.output_dim>>,
           t.dtype, <<>>, "linear" \o t.id)

(* ------------------------------ Joiner --------------------------------- *)
Joiner__init__(input_dim, output_dim) ==
    [output_linear |-> [input_dim |-> input_dim, output_dim |-> output_dim]]

Raise(exc) == [exc |-> exc, out |-> NoTensor]

Return(t) == [exc |-> "none", out |-> t]

Joiner_asserts(encoder_out, predictor_out) ==
    /\ ndim(encoder_out) = 3 /\ ndim(predictor_out) = 3
    /\ size(encoder_out, 0) = size(predictor_out, 0)
    /\ size(encoder_out, 2) = size(predictor_out, 2)

Joiner_forward(self, encoder_out, predictor_out) ==
    IF ~Joiner_asserts(encoder_out, predictor_out) THEN Raise("AssertionError")
    ELSE LET e == unsqueeze(encoder_out, 2)
             p == unsqueeze(predictor_out, 1)
             logit == tanh(add(e, p))
         IN  IF ~Linear_accepts(self.output_linear, logit)
             THEN Raise("RuntimeError")
             ELSE Return(Linear_forward(self.output_linear, logit))

(* ---------------------------- Transducer ------------------------------- *)
NoModel == [cls |-> "None"]

isinstance_EncoderInterface(encoder) == "EncoderInterface" \in encoder.bases

hasattr(obj, name) == name \in DOMAIN obj

(* Transducer.__init__ without the isinstance assertion *)
Transducer__init__without_isinstance(cls, encoder, predictor, joiner, optimized_prob) ==
    IF ~hasattr(predictor, "blank_id")
    THEN [exc |-> "AssertionError", self |-> NoModel]
    ELSE [exc |-> "none",
          self |-> [cls |-> cls, encoder |-> encoder, predictor |-> predictor,
                    joiner |-> joiner, optimized_prob |-> optimized_prob]]

(* Transducer.__init__: the constructed object, or the exception raised *)
Transducer__init__(cls, encoder, predictor, joiner, optimized_prob) ==
    IF ~isinstance_EncoderInterface(encoder)
    THEN [exc |-> "AssertionError", self |-> NoModel]
    ELSE IF ~hasattr(predictor, "blank_id")
    THEN [exc |-> "AssertionError", self |-> NoModel]
    ELSE [exc |-> "none",
          self |-> [cls |-> cls, encoder |-> encoder, predictor |-> predictor,
                    joiner |-> joiner, optimized_prob |-> optimized_prob]]

(* TransducerOptimized.__init__ passes its arguments to Transducer.__init__ *)
TransducerOptimized__init__(cls, encoder, predictor, joiner, optimized_prob) ==
    Transducer__init__(cls, encoder, predictor, joiner, optimized_prob)

(* forward with the batch size of y left out of the last assertion *)
forward_asserts_without_y_batch(x, x_lens, y) ==
    /\ ndim(x) = 3
    /\ ndim(x_lens) = 1
    /\ ndim(y) = 2
    /\ size(x, 0) = size(x_lens, 0)

(* the assertions at the head of Transducer.forward *)
forward_asserts(x, x_lens, y) ==
    /\ ndim(x) = 3
    /\ ndim(x_lens) = 1
    /\ ndim(y) = 2
    /\ size(x, 0) = size(x_lens, 0) /\ size(x_lens, 0) = size(y, 0)

(* forward with the labels handed to the predictor unpadded *)
forward_sos_y_pad_unpadded(y) == to(y, "int64")

(* the start-padded labels handed to the predictor *)
forward_sos_y_pad(y) == to(pad_1_0_0_0(y), "int64")

(* forward handing compute_loss the x_lens of its caller *)
forward_loss_args_caller_lens(self, a, f) ==
    [logits |-> f.logits,
     targets |-> to(a.y, "int32"),
     logit_lengths |-> a.x_lens,
     target_lengths |-> a.y_lens,
     blank |-> self.predictor.blank_id,
     reduction |-> "mean"]

(* the arguments forward hands to compute_loss: a holds forward's          *)
(* parameters, f its locals (f.x_lens is x_lens as rebound by the encoder  *)
(* call)                                                                   *)
forward_loss_args(self, a, f) ==
    [logits |-> f.logits,
     targets |-> to(a.y, "int32"),
     logit_lengths |-> f.x_lens,
     target_lengths |-> a.y_lens,
     blank |-> self.predictor.blank_id,
     reduction |-> "mean"]

(* Transducer.compute_loss: the kernel call it makes and what it returns, *)
(* k being what the kernel returns                                         *)
Transducer_compute_loss(self, a, k) ==
    [exc |-> "none",
     fn |-> "torchaudio.functional.rnnt_loss",
     kwargs |-> [logits |-> a.logits, targets |-> a.targets,
                 logit_lengths |-> a.logit_lengths,
                 target_lengths |-> a.target_lengths,
                 blank |-> a.blank, reduction |-> a.reduction],
     out |-> k]

(* TransducerOptimized.compute_loss: r is the value of random.random(),   *)
(* in percent, read only when optimized_prob is not 0                      *)
one_sym_per_frame(self, r) ==
    IF self.optimized_prob = 0 THEN FALSE
    ELSE IF r < self.optimized_prob THEN TRUE
    ELSE FALSE

(* TransducerOptimized.compute_loss handing its reduction to the kernel *)
TransducerOptimized_compute_loss_reduction(self, a, r, k) ==
    IF ~(0 <= self.optimized_prob /\ self.optimized_prob <= 100)
    THEN [exc |-> "AssertionError", fn |-> "none", kwargs |-> <<>>, out |-> NoTensor]
    ELSE [exc |-> "none",
          fn |-> "optimized_transducer.transducer_loss",
          kwargs |-> [logits |-> a.logits, targets |-> a.targets,
                      logit_lengths |-> a.logit_lengths,
                      target_lengths |-> a.target_lengths,
                      blank |-> a.blank, reduction |-> a.reduction,
                      one_sym_per_frame |-> one_sym_per_frame(self, r),
                      from_log_softmax |-> FALSE],
          out |-> k]

TransducerOptimized_compute_loss(self, a, r, k) ==
    IF ~(0 <= self.optimized_prob /\ self.optimized_prob <= 100)
    THEN [exc |-> "AssertionError", fn |-> "none", kwargs |-> <<>>, out |-> NoTensor]
    ELSE [exc |-> "none",
          fn |-> "optimized_transducer.transducer_loss",
          kwargs |-> [logits |-> a.logits, targets |-> a.targets,
                      logit_lengths |-> a.logit_lengths,
                      target_lengths |-> a.target_lengths,
                      blank |-> a.blank, reduction |-> "mean",
                      one_sym_per_frame |-> one_sym_per_frame(self, r),
                      from_log_softmax |-> FALSE],
          out |-> k]

(* method resolution of self.compute_loss *)
compute_loss(self, a, r, k) ==
    IF self.cls = "TransducerOptimized"
    THEN TransducerOptimized_compute_loss(self, a, r, k)
    ELSE Transducer_compute_loss(self, a, k)

(* ------------------------- inputs of the model ------------------------- *)
Classes == {"Transducer", "TransducerOptimized"}

Encoders == {[bases |-> {"Module", "EncoderInterface"}], [bases |-> {"Module"}]}

Predictors == {[blank_id |-> 0], [blank_id |-> 1], [embedding |-> 0]}

Joiners == {Joiner__init__(2, 2), Joiner__init__(2, 3)}

OptimizedProbs == {-50, 0, 50, 100, 150}

RandomDraws == {0, 99}

Dims == {1, 2}

Reductions == {"mean", "sum", "none"}

XTensors ==
    {Tensor(<<b, 2, 1>>, "float32", <<>>, "x") : b \in 1..MaxB}
    \cup {Tensor(<<b, 2>>, "float32", <<>>, "x") : b \in 1..MaxB}

XLens ==
    {Tensor(<<b>>, "int64", Const(b, 2), "x_lens") : b \in 1..MaxB}
    \cup {Tensor(<<1, 1>>, "int64", <<2>>, "x_lens"),
          Tensor(<<>>, "int64", <<2>>, "x_lens")}

(* label tensors: all elements distinct, so that a misplaced element shows *)
YTensors ==
    {Tensor(<<b, l>>, "int64", [k \in 1..(b * l) |-> s + k], "y")
       : <<b, l, s>> \in (1..MaxB) \X (1..MaxU) \X {0, 1}}
    \cup {Tensor(<<b, l>>, "float32", [k \in 1..(b * l) |-> 2 * k + 1], "y")
           : <<b, l>> \in (1..MaxB) \X (1..MaxU)}
    \cup {Tensor(<<3>>, "int64", <<1, 2, 3>>, "y")}

YLens == {Tensor(<<b>>, "int64", Const(b, 1), "y_lens") : b \in {1, 2}}

(* what an encoder may return for (x, x_lens): features of some length t  *)
(* and width c, and the lengths after subsampling, possibly with a zero    *)
EncoderReturns(x, x_lens) ==
    LET b == size(x, 0)
    IN  {<<Tensor(<<b, t, c>>, "float32", <<>>, "encoder_out"),
           Tensor(<<b>>, "int64", lens, "encoder_lens")>>
         : <<t, c, lens>> \in
             UNION {{<<t, c, Const(b, t)>>, <<t, c, [Const(b, t) EXCEPT ![1] = 0]>>}
                    : <<t, c>> \in (1..MaxT) \X Dims}}

(* what a predictor may return for the padded labels of shape (b, u) *)
PredictorReturns(sos_y_pad) ==
    {Tensor(<<size(sos_y_pad, 0), size(sos_y_pad, 1), c>>, "float32", <<>>,
            "predictor_out") : c \in Dims}

(* what a loss kernel may return *)
KernelReturns == {Tensor(<<>>, "float32", <<>>, id) : id \in {"loss_a", "loss_b"}}

(* arguments of a direct call of compute_loss *)
SampleLossArgs ==
    {[logits |-> Tensor(<<1, 1, 2, 3>>, "float32", <<>>, "logits"),
      targets |-> Tensor(<<1, 1>>, "int32", <<1>>, "targets"),
      logit_lengths |-> Tensor(<<1>>, "int32", <<1>>, "logit_lengths"),
      target_lengths |-> Tensor(<<1>>, "int32", <<1>>, "target_lengths"),
      blank |-> bl, reduction |-> red] : <<bl, red>> \in {0, 1} \X Reductions}

(* ------------------------------- state --------------------------------- *)
VARIABLES
    model,      \* the constructed model, or NoModel
    ctor,       \* the last constructor call: its arguments and its exception
    entry,      \* the method the caller invoked: "none", "forward", "compute_loss"
    pc,         \* position in that method
    args,       \* the arguments of the call in progress
    frame,      \* the locals of forward
    calls,      \* the calls made so far by the call in progress, in order
    result      \* how the call ended: the value returned or the exception raised

vars == <<model, ctor, entry, pc, args, frame, calls, result>>

NoArgs == [x |-> NoTensor, x_lens |-> NoTensor, y |-> NoTensor, y_lens |-> NoTensor]

NoFrame ==
    [encoder_out |-> NoTensor, x_lens |-> NoTensor, sos_y_pad |-> NoTensor,
     predictor_out |-> NoTensor, logits |-> NoTensor]

NoResult == [exc |-> "none", out |-> NoTensor]

Call(fn, a, ret) == [fn |-> fn, args |-> a, ret |-> ret]

Init ==
    /\ model = NoModel
    /\ ctor = [made |-> FALSE, exc |-> "none"]
    /\ entry = "none"
    /\ pc = "idle"
    /\ args = NoArgs
    /\ frame = NoFrame
    /\ calls = <<>>
    /\ result = NoResult

Ended == pc \in {"returned", "raised"}

(* Transducer(...) or TransducerOptimized(...) *)
Construct(cls, encoder, predictor, joiner, optimized_prob) ==
    /\ pc = "idle"
    /\ model = NoModel
    /\ LET r == IF cls = "TransducerOptimized"
                THEN TransducerOptimized__init__(cls, encoder, predictor, joiner,
                                                 optimized_prob)
                ELSE Transducer__init__(cls, encoder, predictor, joiner,
                                        optimized_prob)
       IN  /\ model' = r.self
           /\ ctor' = [made |-> TRUE, exc |-> r.exc, cls |-> cls,
                       encoder |-> encoder, predictor |-> predictor,
                       joiner |-> joiner, optimized_prob |-> optimized_prob]
    /\ UNCHANGED <<entry, pc, args, frame, calls, result>>

(* model.forward(x, x_lens, y, y_lens): entry and the assertions *)
Forward(x, x_lens, y, y_lens) ==
    /\ pc = "idle"
    /\ model # NoModel
    /\ entry' = "forward"
    /\ args' = [x |-> x, x_lens |-> x_lens, y |-> y, y_lens |-> y_lens]
    /\ frame' = NoFrame
    /\ calls' = <<>>
    /\ IF forward_asserts(x, x_lens, y)
       THEN pc' = "forward_47" /\ result' = NoResult
       ELSE pc' = "raised" /\ result' = Raise("AssertionError")
    /\ UNCHANGED <<model, ctor>>

(* encoder_out, x_lens = self.encoder(x, x_lens); assert torch.all(x_lens > 0) *)
CallEncoder ==
    /\ entry = "forward" /\ pc = "forward_47"
    /\ \E ret \in EncoderReturns(args.x, args.x_lens) :
         /\ calls' = Append(calls, Call("encoder", <<args.x, args.x_lens>>, ret))
         /\ frame' = [frame EXCEPT !.encoder_out = ret[1], !.x_lens = ret[2]]
         /\ IF all_gt_0(ret[2])
            THEN pc' = "forward_50" /\ result' = NoResult
            ELSE pc' = "raised" /\ result' = Raise("AssertionError")
    /\ UNCHANGED <<model, ctor, entry, args>>

(* blank_id, sos_y_pad, predictor_out = self.predictor(sos_y_pad) *)
CallPredictor ==
    /\ entry = "forward" /\ pc = "forward_50"
    /\ LET sos_y_pad == forward_sos_y_pad(args.y)
       IN  \E out \in PredictorReturns(sos_y_pad) :
             /\ calls' = Append(calls, Call("predictor", <<sos_y_pad>>, <<out>>))
             /\ frame' = [frame EXCEPT !.sos_y_pad = sos_y_pad,
                                       !.predictor_out = out]
    /\ pc' = "forward_57"
    /\ UNCHANGED <<model, ctor, entry, args, result>>

(* logits = self.joiner(encoder_out, predictor_out) *)
CallJoiner ==
    /\ entry = "forward" /\ pc = "forward_57"
    /\ LET r == Joiner_forward(model.joiner, frame.encoder_out, frame.predictor_out)
       IN  /\ calls' = Append(calls, Call("joiner",
                                          <<frame.encoder_out, frame.predictor_out>>,
                                          IF r.exc = "none" THEN <<r.out>> ELSE <<>>))
           /\ frame' = [frame EXCEPT !.logits = r.out]
           /\ IF r.exc = "none"
              THEN pc' = "forward_59" /\ result' = NoResult
              ELSE pc' = "raised" /\ result' = Raise(r.exc)
    /\ UNCHANGED <<model, ctor, entry, args>>

(* the calls made by one invocation of self.compute_loss, and its outcome *)
LossCalls(c, a) ==
    IF c.exc = "none"
    THEN <<Call("compute_loss", a, <<c.out>>), Call(c.fn, c.kwargs, <<c.out>>)>>
    ELSE <<Call("compute_loss", a, <<>>)>>

(* y_padded = y.to(int32); loss = self.compute_loss(...); return loss *)
CallComputeLoss ==
    /\ entry = "forward" /\ pc = "forward_59"
    /\ \E r \in RandomDraws, k \in KernelReturns :
         LET a == forward_loss_args(model, args, frame)
             c == compute_loss(model, a, r, k)
         IN  /\ calls' = calls \o LossCalls(c, a)
             /\ IF c.exc = "none"
                THEN pc' = "returned" /\ result' = Return(c.out)
                ELSE pc' = "raised" /\ result' = Raise(c.exc)
    /\ UNCHANGED <<model, ctor, entry, args, frame>>

(* model.compute_loss(...) called by the user of the model *)
DirectComputeLoss(a) ==
    /\ pc = "idle"
    /\ model # NoModel
    /\ entry' = "compute_loss"
    /\ args' = NoArgs
    /\ frame' = NoFrame
    /\ \E r \in RandomDraws, k \in KernelReturns :
         LET c == compute_loss(model, a, r, k)
         IN  /\ calls' = LossCalls(c, a)
             /\ IF c.exc = "none"
                THEN pc' = "returned" /\ result' = Return(c.out)
                ELSE pc' = "raised" /\ result' = Raise(c.exc)
    /\ UNCHANGED <<model, ctor>>

(* the caller has taken the value or caught the exception *)
Finish ==
    /\ Ended
    /\ entry' = "none"
    /\ pc' = "idle"
    /\ args' = NoArgs
    /\ frame' = NoFrame
    /\ calls' = <<>>
    /\ result' = NoResult
    /\ UNCHANGED <<model, ctor>>

Next ==
    \/ \E cls \in Classes, encoder \in Encoders, predictor \in Predictors,
          joiner \in Joiners, optimized_prob \in OptimizedProbs :
         Construct(cls, encoder, predictor, joiner, optimized_prob)
    \/ \E x \in XTensors, x_lens \in XLens, y \in YTensors, y_lens \in YLens :
         Forward(x, x_lens, y, y_lens)
    \/ CallEncoder
    \/ CallPredictor
    \/ CallJoiner
    \/ CallComputeLoss
    \/ \E a \in SampleLossArgs : DirectComputeLoss(a)
    \/ Finish

Spec == Init /\ [][Next]_vars

(* ------------------------------ properties ----------------------------- *)
SubNetworks == {"encoder", "predictor", "joiner", "compute_loss"}

Kernels == {"torchaudio.functional.rnnt_loss", "optimized_transducer.transducer_loss"}

IsSubNetworkCall(c) == c.fn \in SubNetworks

IsKernelCall(c) == c.fn \in Kernels

SubCalls == SelectSeq(calls, IsSubNetworkCall)

KernelCalls == SelectSeq(calls, IsKernelCall)

Fns(s) == [i \in 1..Len(s) |-> s[i].fn]

ForwardOrder == <<"encoder", "predictor", "joiner", "compute_loss">>

(* element k of the labels t as an integer *)
LabelAt(t, k) == IF t.dtype = "float32" THEN Trunc(t.data[k]) ELSE t.data[k]

(* p is y with one start symbol 0 in front of every row, as int64 *)
IsStartPadded(p, y) ==
    LET b == y.shape[1]
        l == y.shape[2]
    IN  /\ p.shape = <<b, l + 1>>
        /\ p.dtype = "int64"
        /\ Len(p.data) = b * (l + 1)
        /\ \A i \in 0..(b - 1) :
             /\ p.data[i * (l + 1) + 1] = 0
             /\ \A j \in 1..l : p.data[i * (l + 1) + 1 + j] = LabelAt(y, i * l + j)

(* p is y as int32, with no start symbol *)
IsInt32Of(p, y) ==
    /\ p.shape = y.shape
    /\ p.dtype = "int32"
    /\ Len(p.data) = Len(y.data)
    /\ \A k \in 1..Len(y.data) : p.data[k] = LabelAt(y, k)

(* the number of sub-network calls forward has made at each position *)
CallsMadeAt(p) ==
    CASE p = "forward_47" -> 0
      [] p = "forward_50" -> 1
      [] p = "forward_57" -> 2
      [] p = "forward_59" -> 3
      [] OTHER -> 4

(* C1: a call of forward invokes the encoder on (x, x_lens), the predictor *)
(* on the start-padded labels, the joiner on the two outputs and           *)
(* compute_loss on the joiner's logits, once each and in this order (at    *)
(* every position the calls made so far are the first ones of that order), *)
(* and a call that returns returns what compute_loss returned.             *)
C1_ForwardCallsInOrder ==
    (entry = "forward" /\ pc # "raised") =>
        LET s == SubCalls
        IN  /\ Len(s) = CallsMadeAt(pc)
            /\ Fns(s) = SubSeq(ForwardOrder, 1, Len(s))
            /\ Len(s) >= 1 => s[1].args = <<args.x, args.x_lens>>
            /\ Len(s) >= 2 => /\ Len(s[2].args) = 1
                              /\ IsStartPadded(s[2].args[1], args.y)
            /\ Len(s) >= 3 => s[3].args = <<s[1].ret[1], s[2].ret[1]>>
            /\ Len(s) >= 4 => s[4].args.logits = s[3].ret[1]
            /\ pc = "returned" => /\ Len(s) = 4
                                  /\ result.exc = "none"
                                  /\ result.out = s[4].ret[1]

C1_Witness ==
    /\ entry = "forward" /\ pc = "returned"
    /\ args.y.shape[1] = 2
    /\ args.y.dtype = "float32"
    /\ result.out.id = "loss_b"

(* C2: Joiner.forward, given encoder_out of shape (b, t, c) and            *)
(* predictor_out of shape (b, u, c), returns a tensor of shape             *)
(* (b, t, u, c); stated of the calls in which the joiner returns.          *)
C2_JoinerShape ==
    (/\ entry = "forward" /\ Len(calls) >= 3
     /\ calls[3].args[1].shape[3] = calls[3].args[2].shape[3]
     /\ Len(calls[3].ret) = 1) =>
        LET e == calls[3].args[1].shape
            p == calls[3].args[2].shape
        IN  calls[3].ret[1].shape = <<e[1], e[2], p[2], e[3]>>

(* C3: Transducer.compute_loss makes exactly one kernel call, of           *)
(* rnnt_loss, with its six arguments unchanged, and returns the kernel's   *)
(* result; forward calls compute_loss with the joiner's logits, y as int32 *)
(* without the start symbol, the lengths the encoder returned, the         *)
(* caller's y_lens, predictor.blank_id and reduction "mean".               *)
C3_StandardLossDelegates ==
    LET s == SubCalls
        k == KernelCalls
        c == s[Len(s)]
    IN  /\ (entry # "none" /\ pc = "returned" /\ model.cls = "Transducer") =>
              /\ c.fn = "compute_loss"
              /\ Len(k) = 1
              /\ calls[Len(calls)] = k[1]
              /\ k[1].fn = "torchaudio.functional.rnnt_loss"
              /\ k[1].args = c.args
              /\ DOMAIN k[1].args = {"logits", "targets", "logit_lengths",
                                     "target_lengths", "blank", "reduction"}
              /\ c.ret = k[1].ret
              /\ result.out = k[1].ret[1]
        /\ (entry = "forward" /\ pc = "returned") =>
              /\ c.args.logits = s[3].ret[1]
              /\ IsInt32Of(c.args.targets, args.y)
              /\ c.args.logit_lengths = s[1].ret[2]
              /\ c.args.target_lengths = args.y_lens
              /\ c.args.blank = model.predictor.blank_id
              /\ c.args.reduction = "mean"

C3_Witness ==
    /\ entry = "forward" /\ pc = "returned" /\ model.cls = "Transducer"
    /\ model.predictor.blank_id = 1
    /\ args.y.dtype = "float32"
    /\ args.x_lens.data # SubCalls[1].ret[2].data

(* the batch size of a tensor, when it has one *)
Batch(t) == IF Len(t.shape) > 0 THEN t.shape[1] ELSE -1

BadForwardInputs ==
    \/ Len(args.x.shape) # 3
    \/ Len(args.x_lens.shape) # 1
    \/ Len(args.y.shape) # 2
    \/ Batch(args.x) # Batch(args.x_lens)
    \/ Batch(args.x_lens) # Batch(args.y)
    \/ Batch(args.x) # Batch(args.y)

(* C4: forward fails with an assertion error, before any sub-network or    *)
(* kernel is invoked, when x is not 3-dimensional, x_lens not              *)
(* 1-dimensional, y not 2-dimensional, or the batch sizes of x, x_lens and *)
(* y are not all equal.                                                    *)
C4_BadInputsAssert ==
    (entry = "forward" /\ BadForwardInputs) =>
        /\ pc = "raised"
        /\ result.exc = "AssertionError"
        /\ calls = <<>>

C4_Witness ==
    /\ entry = "forward" /\ pc = "raised" /\ calls = <<>>
    /\ Len(args.x.shape) = 3 /\ Len(args.x_lens.shape) = 1 /\ Len(args.y.shape) = 2
    /\ Batch(args.x) = Batch(args.x_lens)
    /\ Batch(args.y) # Batch(args.x)

(* C5: constructing a Transducer or a TransducerOptimized fails with an    *)
(* assertion error and yields no model when the encoder is not an          *)
(* EncoderInterface or the predictor has no blank_id; otherwise the model  *)
(* holds exactly the encoder, predictor, joiner and optimized_prob given.  *)
C5_Construction ==
    /\ ~ctor.made => model = NoModel
    /\ ctor.made =>
         IF "EncoderInterface" \notin ctor.encoder.bases
            \/ "blank_id" \notin DOMAIN ctor.predictor
         THEN ctor.exc = "AssertionError" /\ model = NoModel
         ELSE /\ ctor.exc = "none"
              /\ DOMAIN model = {"cls", "encoder", "predictor", "joiner",
                                 "optimized_prob"}
              /\ model.cls = ctor.cls
              /\ model.encoder = ctor.encoder
              /\ model.predictor = ctor.predictor
              /\ model.joiner = ctor.joiner
              /\ model.optimized_prob = ctor.optimized_prob

C5_Witness ==
    /\ ctor.made /\ ctor.cls = "TransducerOptimized"
    /\ "EncoderInterface" \notin ctor.encoder.bases
    /\ "blank_id" \in DOMAIN ctor.predictor
    /\ model = NoModel

(* the arguments the two kernels have in common *)
Common(kw) ==
    [logits |-> kw.logits, targets |-> kw.targets,
     logit_lengths |-> kw.logit_lengths, target_lengths |-> kw.target_lengths,
     blank |-> kw.blank, reduction |-> kw.reduction]

(* C6: whatever reduction it is given, TransducerOptimized.compute_loss    *)
(* (which makes a kernel call exactly when optimized_prob is within        *)
(* [0, 1]) calls the optimized kernel once, with reduction "mean",         *)
(* from_log_softmax False and logits, targets, logit_lengths,              *)
(* target_lengths and blank unchanged; through forward with                *)
(* optimized_prob = 0 the optimized kernel is handed the logits, targets,  *)
(* lengths, blank and reduction that Transducer.compute_loss hands its     *)
(* kernel.                                                                 *)
C6_OptimizedIgnoresReduction ==
    LET s == SubCalls
        k == KernelCalls
        c == s[Len(s)]
    IN  (/\ entry # "none" /\ Ended /\ model.cls = "TransducerOptimized"
         /\ Len(s) > 0 /\ c.fn = "compute_loss") =>
           /\ pc = "returned" <=>
                (0 <= model.optimized_prob /\ model.optimized_prob <= 100)
           /\ pc = "raised" => k = <<>> /\ result.exc = "AssertionError"
           /\ pc = "returned" =>
                /\ Len(k) = 1
                /\ k[1].fn = "optimized_transducer.transducer_loss"
                /\ k[1].args.reduction = "mean"
                /\ k[1].args.from_log_softmax = FALSE
                /\ k[1].args.logits = c.args.logits
                /\ k[1].args.targets = c.args.targets
                /\ k[1].args.logit_lengths = c.args.logit_lengths
                /\ k[1].args.target_lengths = c.args.target_lengths
                /\ k[1].args.blank = c.args.blank
                /\ (entry = "forward" /\ model.optimized_prob = 0) =>
                     /\ Common(k[1].args) =
                          Transducer_compute_loss(model, c.args, result.out).kwargs
                     /\ k[1].args.one_sym_per_frame = FALSE

C6_Witness ==
    /\ entry = "compute_loss" /\ pc = "returned"
    /\ model.cls = "TransducerOptimized"
    /\ calls[1].args.reduction = "sum"
    /\ calls[2].args.reduction = "mean"
    /\ calls[2].args.one_sym_per_frame = TRUE
====
